---- MODULE Spec2Model ----
(***************************************************************************)
(* Model of the invoice validation pipeline of pdf_vendor_matcher.py:      *)
(* the registry loader, the text extractor, the vendor resolver, the PO,   *)
(* date and rate checkers, the routing decision and process_pdf.           *)
(*                                                                         *)
(* Python values are tagged records, one field name per type, so that      *)
(* values of different Python types can be compared:                       *)
(*   None, NaN, bool (b), int (n), float (f), str (s, a sequence of        *)
(*   one-character strings), a literal message of the code (x),            *)
(*   list (l), dict (d, a function from keys to values).                   *)
(***************************************************************************)
EXTENDS Integers, Sequences, FiniteSets, TLC

VARIABLES
    amplify_api_url,   \* TRUE iff AMPLIFY_API_URL and AMPLIFY_API_KEY are both set
    readable,          \* TRUE iff pd.read_excel can open the workbook at excel_file_path
    sheet,             \* the 'Service Agreements' sheet the registry was loaded from
    rates,             \* the 'Vendors Rates' sheet the registry was loaded from
    vendor_list,       \* self.vendor_list
    vendor_data,       \* self.vendor_data
    pc,                \* position of the process_pdf run
    pdf_text,          \* local pdf_text of process_pdf
    api_response,      \* local api_response of process_pdf
    vendor_name,       \* local vendor_name
    po_validation,     \* local po_validation
    date_validation,   \* local date_validation
    rate_validation,   \* local rate_validation
    contact_person,    \* local contact_person
    result,            \* value returned by process_pdf
    calls,             \* requests.post calls made so far, in order
    replies,           \* how each of these calls ended, in the same order
    other,             \* the run of a second request, while this one has the processor
    uploads,           \* the files of UPLOAD_FOLDER: path |-> content
    request            \* the upload_file frame this run serves, if any

vars == <<amplify_api_url, readable, sheet, rates, vendor_list, vendor_data, pc, pdf_text,
          api_response, vendor_name, po_validation, date_validation,
          rate_validation, contact_person, result, calls, replies, other, uploads,
          request>>

-----------------------------------------------------------------------------
(* Python values *)

None == [t |-> "None"]
NaN == [t |-> "nan"]
Unset == [t |-> "unset"]
True == [t |-> "bool", b |-> TRUE]
False == [t |-> "bool", b |-> FALSE]
PyInt(n) == [t |-> "int", n |-> n]
PyFloat(n) == [t |-> "float", f |-> n]
Date(n) == [t |-> "date", day |-> n]
Str(cs) == [t |-> "str", s |-> cs]
Lit(m) == [t |-> "lit", x |-> m]
List(q) == [t |-> "list", l |-> q]
Dict(fn) == [t |-> "dict", d |-> fn]

EmptyFn == [k \in {} |-> None]

\* bool(v)
Truthy(v) ==
    CASE v.t = "None" -> FALSE
      [] v.t = "nan" -> TRUE
      [] v.t = "bool" -> v.b
      [] v.t = "int" -> v.n # 0
      [] v.t = "float" -> v.f # 0
      [] v.t = "date" -> TRUE
      [] v.t = "str" -> v.s # <<>>
      [] v.t = "lit" -> v.x # ""
      [] v.t = "list" -> v.l # <<>>
      [] v.t = "dict" -> DOMAIN v.d # {}

\* a or b
PyOr(a, b) == IF Truthy(a) THEN a ELSE b

\* IsNa testing for None alone
IsNoneOnly(v) == v.t = "None"

\* pd.isna(v) / not pd.notna(v)
IsNa(v) == v.t \in {"None", "nan"}

\* dict.get(k) and dict.get(k, default)
GetOr(dct, k, default) == IF k \in DOMAIN dct.d THEN dct.d[k] ELSE default

Get(dct, k) == GetOr(dct, k, None)

-----------------------------------------------------------------------------
(* Strings: sequences of one-character strings *)

Whitespace == {" ", "\n"}

\* the upper-case letters of the model's strings and their lower-case forms
ToLower == [A |-> "a", N |-> "n", P |-> "p", S |-> "s", Z |-> "z"]

LowerChar(c) == IF c \in DOMAIN ToLower THEN ToLower[c] ELSE c

\* Lower leaving the case as it is
LowerIdentity(cs) == cs

\* str.lower()
Lower(cs) == [i \in 1..Len(cs) |-> LowerChar(cs[i])]

RECURSIVE LStrip(_)
LStrip(cs) == IF cs # <<>> /\ Head(cs) \in Whitespace THEN LStrip(Tail(cs)) ELSE cs

RECURSIVE RStrip(_)
RStrip(cs) ==
    IF cs # <<>> /\ cs[Len(cs)] \in Whitespace
    THEN RStrip(SubSeq(cs, 1, Len(cs) - 1))
    ELSE cs

\* str.strip()
Strip(cs) == RStrip(LStrip(cs))

\* needle in haystack
Contains(haystack, needle) ==
    \E i \in 0..(Len(haystack) - Len(needle)) :
        SubSeq(haystack, i + 1, i + Len(needle)) = needle

DigitChar == <<"0", "1", "2", "3", "4", "5", "6", "7", "8", "9">>

RECURSIVE Digits(_)
Digits(n) == IF n < 10 THEN <<DigitChar[n + 1]>> ELSE Digits(n \div 10) \o <<DigitChar[(n % 10) + 1]>>

\* str(v) of a cell value
PyStr(v) ==
    CASE v.t = "None" -> <<"N", "o", "n", "e">>
      [] v.t = "nan" -> <<"n", "a", "n">>
      [] v.t = "int" -> Digits(v.n)
      [] v.t = "float" -> Digits(v.f) \o <<".", "0">>
      [] v.t = "str" -> v.s

nan_str == <<"n", "a", "n">>

-----------------------------------------------------------------------------
(* Registry loader *)

\* row.get(col) of a sheet row
RowGet(row, col) == IF col \in DOMAIN row THEN row[col] ELSE None

\* the name a 'Vendor' cell is stored under, and whether the row is kept
VendorKey(cell) == Strip(PyStr(cell))

KeepVendor(name) == name # <<>> /\ Lower(name) # nan_str

\* the record _load_vendor_data stores for one row
VendorRecord(row) ==
    [contract_start |-> RowGet(row, "Contract Start Date"),
     contract_end |-> RowGet(row, "Contract End Date"),
     current_po |-> RowGet(row, "Current PO"),
     po_start |-> RowGet(row, "PO Start"),
     po_end |-> RowGet(row, "PO End")]

\* the loop of _load_vendor_data over the rows: a later row overwrites
RECURSIVE LoadVendorRows(_, _)
LoadVendorRows(rows, data) ==
    IF rows = <<>> THEN data
    ELSE LET row == Head(rows)
             name == VendorKey(row["Vendor"])
         IN LoadVendorRows(Tail(rows),
                IF KeepVendor(name)
                THEN [k \in DOMAIN data \cup {name} |->
                        IF k = name THEN VendorRecord(row) ELSE data[k]]
                ELSE data)

\* vendor_series.unique(): the distinct non-NaN cells, in order of appearance
RECURSIVE UniqueCells(_, _)
UniqueCells(rows, seen) ==
    IF rows = <<>> THEN <<>>
    ELSE LET c == Head(rows)["Vendor"]
         IN IF IsNa(c) \/ PyStr(c) \in seen
            THEN UniqueCells(Tail(rows), seen)
            ELSE <<PyStr(c)>> \o UniqueCells(Tail(rows), seen \cup {PyStr(c)})

\* the list comprehension building self.vendor_list
RECURSIVE StripKept(_)
StripKept(names) ==
    IF names = <<>> THEN <<>>
    ELSE IF KeepVendor(Strip(Head(names)))
         THEN <<Strip(Head(names))>> \o StripKept(Tail(names))
         ELSE StripKept(Tail(names))

LoadVendorList(rows) == StripKept(UniqueCells(rows, {}))

\* vendor_column in df.columns; a sheet without data rows is one that holds its
\* header row only, the header naming the 'Vendor' column
HasColumn(rows, col) == rows = <<>> \/ col \in DOMAIN rows[1]

\* df.columns of a sheet without a 'Vendor' column, left to right, and the
\* spelling of these column names
LooseColumns == <<"Name", "Supplier">>

Spelling ==
    ("Name" :> <<"N", "a", "m", "e">>)
    @@ ("Supplier" :> <<"S", "u", "p", "p", "l", "i", "e", "r">>)

Columns(rows) == SelectSeq(LooseColumns, LAMBDA c : c \in DOMAIN rows[1])

supplier_word == <<"s", "u", "p", "p", "l", "i", "e", "r">>
vendor_word == <<"v", "e", "n", "d", "o", "r">>

\* 'supplier' in col_lower or 'vendor' in col_lower
NamesVendor(col) ==
    LET col_lower == Lower(Spelling[col])
    IN Contains(col_lower, supplier_word) \/ Contains(col_lower, vendor_word)

\* the column _load_vendor_list_fallback reads: the first one naming a vendor or
\* a supplier, or else the first column
VendorColumn(cols) ==
    IF \E i \in 1..Len(cols) : NamesVendor(cols[i])
    THEN cols[CHOOSE i \in 1..Len(cols) :
                 NamesVendor(cols[i]) /\ \A k \in 1..(i - 1) : ~NamesVendor(cols[k])]
    ELSE cols[1]

\* df[col].dropna().astype(str).unique()
RECURSIVE UniqueIn(_, _, _)
UniqueIn(rows, col, seen) ==
    IF rows = <<>> THEN <<>>
    ELSE LET c == Head(rows)[col]
         IN IF IsNa(c) \/ PyStr(c) \in seen
            THEN UniqueIn(Tail(rows), col, seen)
            ELSE <<PyStr(c)>> \o UniqueIn(Tail(rows), col, seen \cup {PyStr(c)})

\* _load_vendor_list_fallback on a workbook that can be read
LoadVendorListFallback(rows) == StripKept(UniqueIn(rows, VendorColumn(Columns(rows)), {}))

annual == <<"a", "n", "n", "u", "a", "l">>
monthly == <<"m", "o", "n", "t", "h", "l", "y">>
weekly == <<"w", "e", "e", "k", "l", "y">>
hourly == <<"h", "o", "u", "r", "l", "y">>
biannual == <<"b", "i", "a", "n", "n", "u", "a", "l">>
as_needed == <<"a", "s", " ", "n", "e", "e", "d", "e", "d">>
variable == <<"v", "a", "r", "i", "a", "b", "l", "e">>

BillingCycles == {annual, monthly, weekly, hourly, biannual, as_needed, variable}

\* the first cell among columns 1..min(10, len(row))-1 naming a billing cycle
RECURSIVE FindCycle(_, _)
FindCycle(row, j) ==
    IF j > Len(row) \/ j > 10 THEN None
    ELSE LET cell_value == Lower(Strip(PyStr(row[j])))
         IN IF cell_value \in BillingCycles THEN Str(cell_value) ELSE FindCycle(row, j + 1)

\* isinstance(cell, (int, float))
IsNumber(cell) == cell.t \in {"int", "float", "bool", "nan"}

\* the body of the loop of _load_rate_data for one row
RateRow(row, data) ==
    LET c0 == row[1]
        name == Strip(PyStr(c0))
    IN IF ~IsNa(c0) /\ name # <<>> /\ name # nan_str /\ Len(name) > 3
       THEN LET old == IF name \in DOMAIN data THEN data[name] ELSE EmptyFn
                withAmount == IF ~IsNa(row[3]) /\ IsNumber(row[3])
                              THEN ("rate_amount" :> row[3]) @@ old
                              ELSE old
                cycle == FindCycle(row, 2)
                withType == IF cycle # None
                            THEN ("rate_type" :> cycle) @@ withAmount
                            ELSE withAmount
            IN [k \in DOMAIN data \cup {name} |-> IF k = name THEN withType ELSE data[k]]
       ELSE data

RECURSIVE LoadRateRows(_, _)
LoadRateRows(rows, data) ==
    IF rows = <<>> THEN data ELSE LoadRateRows(Tail(rows), RateRow(Head(rows), data))

\* __init__: _load_vendor_data, then _load_rate_data
LoadRegistry(agreements, rateRows) ==
    LoadRateRows(rateRows, LoadVendorRows(agreements, EmptyFn))

-----------------------------------------------------------------------------
(* Text extractor *)

RECURSIVE SplitLines(_)
\* text.split('\n')
SplitLines(cs) ==
    IF \A i \in 1..Len(cs) : cs[i] # "\n" THEN <<cs>>
    ELSE LET i == CHOOSE k \in 1..Len(cs) : cs[k] = "\n" /\ \A m \in 1..(k - 1) : cs[m] # "\n"
         IN <<SubSeq(cs, 1, i - 1)>> \o SplitLines(SubSeq(cs, i + 1, Len(cs)))

RECURSIVE Words(_)
\* line.split()
Words(line) ==
    LET rest == LStrip(line)
    IN IF rest = <<>> THEN <<>>
       ELSE LET n == IF \E k \in 1..Len(rest) : rest[k] \in Whitespace
                     THEN (CHOOSE k \in 1..Len(rest) :
                              rest[k] \in Whitespace /\ \A m \in 1..(k - 1) : rest[m] \notin Whitespace) - 1
                     ELSE Len(rest)
            IN <<SubSeq(rest, 1, n)>> \o Words(SubSeq(rest, n + 1, Len(rest)))

RECURSIVE Join(_, _)
\* sep.join(parts)
Join(parts, sep) ==
    IF parts = <<>> THEN <<>>
    ELSE IF Len(parts) = 1 THEN parts[1]
    ELSE parts[1] \o sep \o Join(Tail(parts), sep)

RECURSIVE CleanLines(_)
\* the loop collecting the non-empty cleaned lines
CleanLines(lines) ==
    IF lines = <<>> THEN <<>>
    ELSE LET cleaned_line == Join(Words(Head(lines)), <<" ">>)
         IN IF cleaned_line # <<>>
            THEN <<cleaned_line>> \o CleanLines(Tail(lines))
            ELSE CleanLines(Tail(lines))

\* the clean-up at the end of extract_pdf_text
CleanText(text) ==
    Strip(IF text # <<>> THEN Join(CleanLines(SplitLines(text)), <<"\n">>) ELSE text)

\* extract_pdf_text: pypdf is the text PyPDF2 recovered (empty when it failed),
\* plumber the text pdfplumber recovered (empty when missing or failed)
extract_pdf_text(pypdf, plumber) ==
    CleanText(IF Len(plumber) > Len(pypdf) THEN plumber ELSE pypdf)

-----------------------------------------------------------------------------
(* The external service: the outcome of one requests.post call *)

Exception == [status |-> "exception"]
Non200 == [status |-> "non200"]
Ok(fmt, val) == [status |-> "ok", fmt |-> fmt, val |-> val]

\* the body could be turned into a value: directly by json.loads, or by
\* json.loads of the braces found inside a fenced code block
Parsed(r) == r.status = "ok" /\ r.fmt \in {"json", "fenced"}

\* how one call ended, as the three callers tell the cases apart: an exception,
\* a status other than 200, an empty body, a body holding no JSON, a parsed body
Outcome(r) ==
    IF r.status # "ok" THEN r.status
    ELSE IF r.fmt = "empty" THEN "empty"
    ELSE IF Parsed(r) THEN "parsed"
    ELSE "text"

\* query_amplify_api, once the configuration test has passed
query_amplify_api(r) ==
    IF r.status # "ok" THEN None
    ELSE IF r.fmt = "empty" THEN Dict("vendor" :> None)
    ELSE IF Parsed(r) THEN r.val
    ELSE Dict("vendor" :> None)

\* _validate_dates_with_llm
validate_dates_with_llm(configured, r) ==
    IF ~configured
    THEN Dict([date_valid |-> False, reason |-> Lit("API not configured for date validation")])
    ELSE IF r.status = "exception"
    THEN Dict([date_valid |-> False, reason |-> Lit("API error")])
    ELSE IF r.status = "ok" /\ r.fmt # "empty"
    THEN IF Parsed(r) THEN r.val
         ELSE Dict([date_valid |-> False, reason |-> Lit("Could not parse LLM response")])
    ELSE Dict([date_valid |-> False, reason |-> Lit("API call failed")])

\* expected_amount * 0.05 (the amounts of the model are multiples of 20)
Tolerance(expected_amount) == (expected_amount * 5) \div 100

\* the text of tolerance_range, kept as its two numbers
Range(lo, hi) == [t |-> "range", lo |-> lo, hi |-> hi]

\* _validate_rate_with_llm
validate_rate_with_llm(configured, expected_rate_type, expected_amount, r) ==
    LET min_amount == expected_amount.n - Tolerance(expected_amount.n)
        max_amount == expected_amount.n + Tolerance(expected_amount.n)
    IN IF ~configured
       THEN Dict([rate_valid |-> False, reason |-> Lit("API not configured for rate validation")])
       ELSE IF r.status = "exception"
       THEN Dict([rate_valid |-> False, reason |-> Lit("API error")])
       ELSE IF r.status = "ok" /\ r.fmt # "empty"
       THEN IF Parsed(r)
            THEN IF r.val.t = "dict"
                 THEN Dict([expected_amount |-> expected_amount,
                            expected_type |-> expected_rate_type,
                            tolerance_range |-> Range(min_amount, max_amount)] @@ r.val.d)
                 ELSE Dict([rate_valid |-> False, reason |-> Lit("API error")])
            ELSE Dict([rate_valid |-> False, reason |-> Lit("Could not parse LLM response")])
       ELSE Dict([rate_valid |-> False, reason |-> Lit("API call failed")])

-----------------------------------------------------------------------------
(* Compliance checkers *)

\* vendor_name in self.vendor_data
InRegistry(data, name) == name.t = "str" /\ name.s \in DOMAIN data

\* vendor_info.get(k)
InfoGet(vendor_info, k) == IF k \in DOMAIN vendor_info THEN vendor_info[k] ELSE None

\* validate_po_number
validate_po_number(data, text, name) ==
    IF ~InRegistry(data, name)
    THEN Dict([po_valid |-> False, reason |-> Lit("Vendor not found in database")])
    ELSE LET expected_po == InfoGet(data[name.s], "current_po")
             po_str == Strip(PyStr(expected_po))
         IN IF ~Truthy(expected_po) \/ IsNa(expected_po)
            THEN Dict([po_valid |-> None,
                       reason |-> Lit("No PO number in database for this vendor")])
            ELSE IF Contains(Lower(text), Lower(po_str))
            THEN Dict([po_valid |-> True, expected_po |-> Str(po_str),
                       reason |-> Lit("PO number found in PDF")])
            ELSE Dict([po_valid |-> False, expected_po |-> Str(po_str),
                       reason |-> Lit("PO number not found in PDF")])

\* validate_date_range reaches the call of _validate_dates_with_llm
DateCallMade(data, name) ==
    /\ InRegistry(data, name)
    /\ LET contract_start == InfoGet(data[name.s], "contract_start")
           contract_end == InfoGet(data[name.s], "contract_end")
       IN ~(~Truthy(contract_start) \/ ~Truthy(contract_end)
            \/ IsNa(contract_start) \/ IsNa(contract_end))

\* validate_date_range
validate_date_range(data, configured, name, r) ==
    IF ~InRegistry(data, name)
    THEN Dict([date_valid |-> False, reason |-> Lit("Vendor not found in database")])
    ELSE IF ~DateCallMade(data, name)
    THEN Dict([date_valid |-> None,
               reason |-> Lit("No contract date range in database for this vendor")])
    ELSE validate_dates_with_llm(configured, r)

\* VariableTypes without 'as needed'
VariableTypesNoAsNeeded == {variable}

\* ['variable', 'as needed']
VariableTypes == {variable, as_needed}

unknown == <<"u", "n", "k", "n", "o", "w", "n">>

\* validate_rate reaches the call of _validate_rate_with_llm
RateCallMade(data, name) ==
    /\ InRegistry(data, name)
    /\ LET rate_type == InfoGet(data[name.s], "rate_type")
           rate_amount == InfoGet(data[name.s], "rate_amount")
       IN /\ ~(~Truthy(rate_type) /\ ~Truthy(rate_amount))
          /\ ~(Truthy(rate_type) /\ Lower(rate_type.s) \in VariableTypes)
          /\ Truthy(rate_amount)

\* validate_rate
validate_rate(data, configured, name, r) ==
    IF ~InRegistry(data, name)
    THEN Dict([rate_valid |-> False, reason |-> Lit("Vendor not found in database")])
    ELSE LET rate_type == InfoGet(data[name.s], "rate_type")
             rate_amount == InfoGet(data[name.s], "rate_amount")
         IN IF ~Truthy(rate_type) /\ ~Truthy(rate_amount)
            THEN Dict([rate_valid |-> None,
                       reason |-> Lit("No rate data in database for this vendor")])
            ELSE IF Truthy(rate_type) /\ Lower(rate_type.s) \in VariableTypes
            THEN Dict([rate_valid |-> True, rate_type |-> rate_type,
                       reason |-> Lit("Rate type is variable - automatic pass"),
                       is_variable |-> True])
            ELSE IF Truthy(rate_type) /\ Truthy(rate_amount)
            THEN validate_rate_with_llm(configured, rate_type, rate_amount, r)
            ELSE IF Truthy(rate_amount) /\ ~Truthy(rate_type)
            THEN validate_rate_with_llm(configured, Str(unknown), rate_amount, r)
            ELSE Dict([rate_valid |-> None, reason |-> Lit("Incomplete rate data")])

-----------------------------------------------------------------------------
(* Routing decision *)

Raised == [t |-> "raise"]

\* x and str(x).lower() not in ['nan', '']
Usable(x) == Truthy(x) /\ Lower(PyStr(x)) \notin {nan_str, <<>>}

\* Joined keeping the first reason only
JoinedFirstOnly(reasons) ==
    [t |-> "joined", head |-> "Issue requires admin attention: ", parts |-> <<Head(reasons)>>]

\* "Issue requires admin attention: " + ", ".join(reasons)
Joined(reasons) == [t |-> "joined", head |-> "Issue requires admin attention: ", parts |-> reasons]

\* AllPassed without the test of the variable rate
AllPassedIgnoringVariable(po_failed, date_failed, rate_failed, is_variable_rate) ==
    ~(po_failed \/ date_failed \/ rate_failed)

\* AllPassed holding whatever the outcomes are
AllPassedWhatever(po_failed, date_failed, rate_failed, is_variable_rate) == TRUE

\* the test deciding that the director is the contact to look up
AllPassed(po_failed, date_failed, rate_failed, is_variable_rate) ==
    ~(po_failed \/ date_failed \/ rate_failed \/ Truthy(is_variable_rate))

\* the main contact is tried first, then the admin
PickContact(main_contact, admin) == IF Usable(main_contact) THEN main_contact ELSE admin

\* _determine_contact_person
determine_contact_person(data, name, po_v, date_v, rate_v) ==
    IF ~InRegistry(data, name)
    THEN Dict([name |-> Lit("Unknown"), role |-> Lit("Unknown"),
               reason |-> Lit("Vendor not found in database")])
    ELSE IF po_v.t # "dict" \/ date_v.t # "dict" \/ rate_v.t # "dict"
    THEN Raised
    ELSE LET vendor_info == data[name.s]
             po_failed == Get(po_v, "po_valid") = False
             date_failed == Get(date_v, "date_valid") = False
             rate_failed == Get(rate_v, "rate_valid") = False
             is_variable_rate == GetOr(rate_v, "is_variable", False)
             director == PyOr(InfoGet(vendor_info, "director"),
                              InfoGet(vendor_info, "Asst Director / Director"))
             main_contact == PyOr(InfoGet(vendor_info, "Main Contact"),
                                  InfoGet(vendor_info, "main_contact"))
             admin == PyOr(InfoGet(vendor_info, "Admin"), InfoGet(vendor_info, "admin"))
             contact == PickContact(main_contact, admin)
             reasons == (IF po_failed THEN <<"PO validation failed">> ELSE <<>>)
                        \o (IF date_failed THEN <<"date validation failed">> ELSE <<>>)
                        \o (IF rate_failed THEN <<"rate validation failed">> ELSE <<>>)
                        \o (IF Truthy(is_variable_rate) THEN <<"variable rate type">> ELSE <<>>)
         IN IF AllPassed(po_failed, date_failed, rate_failed, is_variable_rate)
               /\ Usable(director)
            THEN Dict([name |-> director, role |-> Lit("Director/Manager"),
                       reason |-> Lit("All validations passed and rate is fixed")])
            ELSE IF Usable(contact)
            THEN Dict([name |-> contact, role |-> Lit("Admin/Main Contact"),
                       reason |-> IF reasons # <<>> THEN Joined(reasons)
                                  ELSE Lit("Default admin contact")])
            ELSE Dict([name |-> Lit("Unknown"), role |-> Lit("Unknown"),
                       reason |-> Lit("No contact information available")])

-----------------------------------------------------------------------------
(* Inputs of the model *)

MaxDates == 1
MaxAmounts == 1

SeqsUpTo(S, n) == UNION {[1..k -> S] : k \in 0..n}

Acme == <<"A", "c", "m", "e">>
Zeta == <<"Z", "e", "t", "a">>
Ann == <<"A", "n", "n">>
Max == <<"M", "a", "x">>
Dee == <<"D", "e", "e">>
P7 == <<"P", "7">>

\* the contract interval of the sheets, and the days the service may name:
\* the last day of the interval and the day after it
Contract == [start |-> 2, end |-> 3]
Days == {Contract.end, Contract.end + 1}

\* the rate amount of the sheets (a multiple of 20), and the amounts the service
\* may name: just outside and exactly on the bounds of the 5% tolerance
RateAmount == 5 * 20
Amounts == {94, 95, 105, 106}

\* one row of the 'Service Agreements' sheet
AgreementRow(vendor, po, start, end, admin, main, director) ==
    ("Vendor" :> vendor) @@ ("Current PO" :> po)
    @@ ("Contract Start Date" :> start) @@ ("Contract End Date" :> end)
    @@ ("PO Start" :> start) @@ ("PO End" :> end)
    @@ ("Admin" :> admin) @@ ("Main Contact" :> main)
    @@ ("Asst Director / Director" :> director)

AgreementSheets ==
    {<<AgreementRow(Str(Acme), po, dates[1], dates[2], c[1], c[2], c[3])>> :
        po \in {NaN, Str(P7)},
        dates \in {<<NaN, NaN>>, <<Date(Contract.start), NaN>>,
                   <<Date(Contract.start), Date(Contract.end)>>},
        c \in {<<NaN, NaN, NaN>>, <<Str(Ann), Str(Max), Str(Dee)>>}}

\* the 'Vendors Rates' sheet: name, billing cycle, amount
RateSheets ==
    {<<>>} \cup {<<<<Str(Acme), cycle, amount>>>> :
                    cycle \in {NaN, Str(monthly), Str(as_needed), Str(variable)},
                    amount \in {NaN, PyInt(RateAmount)}}

\* what the two extraction strategies may recover from a PDF
RawTexts == {<<>>, <<" ", "\n">>, <<"p", "7", "\n">>, <<"x", " ", "\n">>}

\* answers of the service to the vendor prompt
VendorAnswers(list) ==
    {Dict("vendor" :> Str(n)) : n \in {list[i] : i \in 1..Len(list)} \cup {Zeta}}
    \cup {Dict("vendor" :> None), Dict(EmptyFn)}

\* answers of the service to the date prompt
DateAnswers ==
    UNION {{Dict(v @@ [dates_found |-> List(found), valid_dates |-> List(valid),
                       reason |-> Lit("llm")]) :
               found \in SeqsUpTo({Date(d) : d \in Days}, MaxDates),
               valid \in SeqsUpTo({Date(d) : d \in Days}, MaxDates)} :
           v \in {EmptyFn, [date_valid |-> True], [date_valid |-> False]}}

\* answers of the service to the rate prompt
RateAnswers ==
    UNION {{Dict(v @@ [amounts_found |-> List(found), reason |-> Lit("llm")]) :
               found \in SeqsUpTo({PyInt(a) : a \in Amounts}, MaxAmounts)} :
           v \in {f @@ g : f \in {EmptyFn, [rate_valid |-> True], [rate_valid |-> False]},
                           g \in {EmptyFn, [is_variable |-> True]}}}

\* outcomes of one call, given the JSON objects the service may answer with
Responses(answers) ==
    {Exception, Non200, Ok("empty", None), Ok("text", None),
     Ok("json", PyInt(5)), Ok("json", List(<<>>))}
    \cup {Ok(fmt, a) : fmt \in {"json", "fenced"}, a \in answers}

-----------------------------------------------------------------------------
(* process_pdf *)

Locals == <<pdf_text, api_response, vendor_name, po_validation, date_validation,
            rate_validation, contact_person>>

Registry == <<amplify_api_url, readable, sheet, rates, vendor_list, vendor_data>>

\* no second request is being served
NoRun == [pc |-> "none"]

\* process_pdf was called directly, not by upload_file
NoRequest == [at |-> "none"]

\* what the two libraries recover from a file: the text PyPDF2 builds from the
\* pages, and the text pdfplumber builds from them
Document(pypdf, plumber) == [pypdf |-> pypdf, plumber |-> plumber]

Documents == {Document(pypdf, plumber) : pypdf \in RawTexts, plumber \in RawTexts}

\* a path with no file: open() raises in both strategies and no text is recovered
MissingFile == Document(<<>>, <<>>)

\* the document extract_pdf_text opens: any document for a direct call, the
\* file at the request's path for an upload
FilesAt(req) ==
    IF req.at = "none" THEN Documents
    ELSE IF req.filepath \in DOMAIN uploads THEN {uploads[req.filepath]}
    ELSE {MissingFile}

InitRun ==
    /\ pc = "extract"
    /\ pdf_text = Unset
    /\ api_response = Unset
    /\ vendor_name = Unset
    /\ po_validation = Unset
    /\ date_validation = Unset
    /\ rate_validation = Unset
    /\ contact_person = Unset
    /\ result = Unset
    /\ calls = <<>>
    /\ replies = <<>>

Init ==
    /\ amplify_api_url \in BOOLEAN
    /\ readable = TRUE
    /\ sheet \in AgreementSheets
    /\ rates \in RateSheets
    /\ vendor_list = LoadVendorList(sheet)
    /\ vendor_data = LoadRegistry(sheet, rates)
    /\ InitRun
    /\ other = NoRun
    /\ uploads = EmptyFn
    /\ request = NoRequest

\* ExtractText going on to the resolver with an empty text
ExtractTextNoReturn ==
    /\ pc = "extract"
    /\ request.at \in {"none", "process"}
    /\ \E doc \in FilesAt(request) :
          pdf_text' = Str(extract_pdf_text(doc.pypdf, doc.plumber))
    /\ pc' = "resolve"
    /\ UNCHANGED <<Registry, api_response, vendor_name, po_validation, date_validation,
                   rate_validation, contact_person, result, calls, replies>>
    /\ UNCHANGED <<other, uploads, request>>

\* Step 1: extract the text, or end with the extraction error
ExtractText ==
    /\ pc = "extract"
    /\ request.at \in {"none", "process"}
    /\ \E doc \in FilesAt(request) :
          LET text == extract_pdf_text(doc.pypdf, doc.plumber)
          IN /\ pdf_text' = Str(text)
             /\ result' = IF text = <<>>
                          THEN Dict([error |-> Lit("Could not extract text from PDF")])
                          ELSE result
             /\ pc' = IF text = <<>> THEN "done" ELSE "resolve"
    /\ UNCHANGED <<Registry, api_response, vendor_name, po_validation, date_validation,
                   rate_validation, contact_person, calls, replies>>
    /\ UNCHANGED <<other, uploads, request>>

\* NoVendor without the test of the vendor's value
NoVendorKeyOnly(api) ==
    \/ ~Truthy(api)
    \/ api.t = "dict" /\ "vendor" \notin DOMAIN api.d

\* not api_response or 'vendor' not in api_response or not api_response['vendor']
NoVendor(api) ==
    \/ ~Truthy(api)
    \/ api.t = "dict" /\ ("vendor" \notin DOMAIN api.d \/ ~Truthy(api.d["vendor"]))

\* ResolveVendor without the configuration test of process_pdf: query_amplify_api
\* makes its own test, returns None without a call, and the run reports no match
ResolveVendorWithoutConfigTest ==
    /\ pc = "resolve"
    /\ IF ~amplify_api_url
       THEN /\ api_response' = None
            /\ result' = Dict([vendor |-> None, po_valid |-> None,
                               date_valid |-> None, method |-> Lit("amplify_api")])
            /\ pc' = "done"
            /\ UNCHANGED <<vendor_name, calls, replies>>
       ELSE \E r \in Responses(VendorAnswers(vendor_list)) :
               LET api == query_amplify_api(r)
               IN /\ api_response' = api
                  /\ calls' = Append(calls, "vendor")
                  /\ replies' = Append(replies, Outcome(r))
                  /\ IF NoVendor(api)
                     THEN /\ result' = Dict([vendor |-> None, po_valid |-> None,
                                             date_valid |-> None, method |-> Lit("amplify_api")])
                          /\ pc' = "done"
                          /\ UNCHANGED vendor_name
                     ELSE IF api.t # "dict"
                     THEN /\ result' = Raised
                          /\ pc' = "raised"
                          /\ UNCHANGED vendor_name
                     ELSE /\ vendor_name' = api.d["vendor"]
                          /\ pc' = "po"
                          /\ UNCHANGED result
    /\ UNCHANGED <<Registry, pdf_text, po_validation, date_validation, rate_validation,
                   contact_person>>
    /\ UNCHANGED <<other, uploads, request>>

\* Step 2: the configuration test, the resolver call and the no-match result
ResolveVendor ==
    /\ pc = "resolve"
    /\ IF ~amplify_api_url
       THEN /\ result' = Dict([error |-> Lit("API not configured")])
            /\ pc' = "done"
            /\ UNCHANGED <<api_response, vendor_name, calls, replies>>
       ELSE \E r \in Responses(VendorAnswers(vendor_list)) :
               LET api == query_amplify_api(r)
               IN /\ api_response' = api
                  /\ calls' = Append(calls, "vendor")
                  /\ replies' = Append(replies, Outcome(r))
                  /\ IF NoVendor(api)
                     THEN /\ result' = Dict([vendor |-> None, po_valid |-> None,
                                             date_valid |-> None, method |-> Lit("amplify_api")])
                          /\ pc' = "done"
                          /\ UNCHANGED vendor_name
                     ELSE IF api.t # "dict"
                     THEN /\ result' = Raised
                          /\ pc' = "raised"
                          /\ UNCHANGED vendor_name
                     ELSE /\ vendor_name' = api.d["vendor"]
                          /\ pc' = "po"
                          /\ UNCHANGED result
    /\ UNCHANGED <<Registry, pdf_text, po_validation, date_validation, rate_validation,
                   contact_person>>
    /\ UNCHANGED <<other, uploads, request>>

\* Step 3: validate the PO number
ValidatePO ==
    /\ pc = "po"
    /\ po_validation' = validate_po_number(vendor_data, pdf_text.s, vendor_name)
    /\ pc' = "date"
    /\ UNCHANGED <<Registry, pdf_text, api_response, vendor_name, date_validation,
                   rate_validation, contact_person, result, calls, replies>>
    /\ UNCHANGED <<other, uploads, request>>

\* ValidateDate going straight to routing when the date check did not pass
ValidateDateSkippingRate ==
    /\ pc = "date"
    /\ \E r \in Responses(DateAnswers) :
          /\ date_validation' = validate_date_range(vendor_data, amplify_api_url,
                                                    vendor_name, r)
          /\ replies' = IF DateCallMade(vendor_data, vendor_name) /\ amplify_api_url
                        THEN Append(replies, Outcome(r)) ELSE replies
          /\ pc' = IF date_validation'.t = "dict" /\ Get(date_validation', "date_valid") = False
                   THEN "contact" ELSE "rate"
    /\ calls' = IF DateCallMade(vendor_data, vendor_name) /\ amplify_api_url
                THEN Append(calls, "date") ELSE calls
    /\ UNCHANGED <<Registry, pdf_text, api_response, vendor_name, po_validation,
                   rate_validation, contact_person, result>>
    /\ UNCHANGED <<other, uploads, request>>

\* Step 4: validate the date range
ValidateDate ==
    /\ pc = "date"
    /\ \E r \in Responses(DateAnswers) :
          /\ date_validation' = validate_date_range(vendor_data, amplify_api_url,
                                                    vendor_name, r)
          /\ replies' = IF DateCallMade(vendor_data, vendor_name) /\ amplify_api_url
                        THEN Append(replies, Outcome(r)) ELSE replies
    /\ calls' = IF DateCallMade(vendor_data, vendor_name) /\ amplify_api_url
                THEN Append(calls, "date") ELSE calls
    /\ pc' = "rate"
    /\ UNCHANGED <<Registry, pdf_text, api_response, vendor_name, po_validation,
                   rate_validation, contact_person, result>>
    /\ UNCHANGED <<other, uploads, request>>

\* ValidateRate keeping the outcome in the vendor's record
ValidateRateStoringOutcome ==
    /\ pc = "rate"
    /\ \E r \in Responses(RateAnswers) :
          /\ rate_validation' = validate_rate(vendor_data, amplify_api_url, vendor_name, r)
          /\ replies' = IF RateCallMade(vendor_data, vendor_name) /\ amplify_api_url
                        THEN Append(replies, Outcome(r)) ELSE replies
          /\ vendor_data' = IF InRegistry(vendor_data, vendor_name)
                            THEN [vendor_data EXCEPT ![vendor_name.s] =
                                     ("last_rate" :> rate_validation') @@ @]
                            ELSE vendor_data
    /\ calls' = IF RateCallMade(vendor_data, vendor_name) /\ amplify_api_url
                THEN Append(calls, "rate") ELSE calls
    /\ pc' = "contact"
    /\ UNCHANGED <<amplify_api_url, readable, sheet, rates, vendor_list, pdf_text, api_response,
                   vendor_name, po_validation, date_validation, contact_person, result>>
    /\ UNCHANGED <<other, uploads, request>>

\* Step 5: validate the rate
ValidateRate ==
    /\ pc = "rate"
    /\ \E r \in Responses(RateAnswers) :
          /\ rate_validation' = validate_rate(vendor_data, amplify_api_url, vendor_name, r)
          /\ replies' = IF RateCallMade(vendor_data, vendor_name) /\ amplify_api_url
                        THEN Append(replies, Outcome(r)) ELSE replies
    /\ calls' = IF RateCallMade(vendor_data, vendor_name) /\ amplify_api_url
                THEN Append(calls, "rate") ELSE calls
    /\ pc' = "contact"
    /\ UNCHANGED <<Registry, pdf_text, api_response, vendor_name, po_validation,
                   date_validation, contact_person, result>>
    /\ UNCHANGED <<other, uploads, request>>

\* Step 6: determine the contact person
DetermineContact ==
    /\ pc = "contact"
    /\ LET contact == determine_contact_person(vendor_data, vendor_name, po_validation,
                                               date_validation, rate_validation)
       IN /\ contact_person' = contact
          /\ pc' = IF contact = Raised THEN "raised" ELSE "compile"
          /\ result' = IF contact = Raised THEN Raised ELSE result
    /\ UNCHANGED <<Registry, pdf_text, api_response, vendor_name, po_validation,
                   date_validation, rate_validation, calls, replies>>
    /\ UNCHANGED <<other, uploads, request>>

\* the result dictionary process_pdf compiles
CompileResult(name, po_v, date_v, rate_v, contact) ==
    Dict([vendor |-> name,
          method |-> Lit("amplify_api"),
          po_valid |-> Get(po_v, "po_valid"),
          po_reason |-> Get(po_v, "reason"),
          expected_po |-> Get(po_v, "expected_po"),
          date_valid |-> Get(date_v, "date_valid"),
          date_reason |-> Get(date_v, "reason"),
          dates_found |-> GetOr(date_v, "dates_found", List(<<>>)),
          valid_dates |-> GetOr(date_v, "valid_dates", List(<<>>)),
          rate_valid |-> Get(rate_v, "rate_valid"),
          rate_reason |-> Get(rate_v, "reason"),
          rate_type |-> Get(rate_v, "rate_type"),
          expected_amount |-> Get(rate_v, "expected_amount"),
          amounts_found |-> GetOr(rate_v, "amounts_found", List(<<>>)),
          is_variable_rate |-> GetOr(rate_v, "is_variable", False),
          contact_person |-> Get(contact, "name"),
          contact_role |-> Get(contact, "role"),
          contact_reason |-> Get(contact, "reason")])

\* Compile the final result and return it
Compile ==
    /\ pc = "compile"
    /\ result' = CompileResult(vendor_name, po_validation, date_validation,
                               rate_validation, contact_person)
    /\ pc' = "done"
    /\ UNCHANGED <<Registry, Locals, calls, replies>>
    /\ UNCHANGED <<other, uploads, request>>

Next ==
    \/ ExtractText
    \/ ResolveVendor
    \/ ValidatePO
    \/ ValidateDate
    \/ ValidateRate
    \/ DetermineContact
    \/ Compile

Spec == Init /\ [][Next]_vars

-----------------------------------------------------------------------------
(* _determine_contact_person on its own: every vendor record and every      *)
(* combination of outcomes                                                  *)

Deb == <<"D", "e", "b">>
Meg == <<"M", "e", "g">>
Amy == <<"A", "m", "y">>

ContactKeys == {"director", "Asst Director / Director", "Main Contact", "main_contact",
                "Admin", "admin"}

ContactName ==
    ("director" :> Dee) @@ ("Asst Director / Director" :> Deb) @@ ("Main Contact" :> Max)
    @@ ("main_contact" :> Meg) @@ ("Admin" :> Ann) @@ ("admin" :> Amy)

\* the cells a contact column may hold; a key may also be absent from the record
ContactCells(k) ==
    IF k \in {"Asst Director / Director", "Main Contact", "Admin"}
    THEN {"absent", "nan", "empty", "name"}
    ELSE {"absent", "name"}

ContactInfo(f) ==
    [k \in {key \in ContactKeys : f[key] # "absent"} |->
        CASE f[k] = "nan" -> NaN
          [] f[k] = "empty" -> Str(<<>>)
          [] f[k] = "name" -> Str(ContactName[k])]

ContactInfos ==
    {ContactInfo(f) : f \in {g \in [ContactKeys -> {"absent", "nan", "empty", "name"}] :
                                \A k \in ContactKeys : g[k] \in ContactCells(k)}}

Outcomes == {True, False, None}

InitRoute ==
    /\ amplify_api_url = TRUE
    /\ readable = TRUE
    /\ sheet = <<>>
    /\ rates = <<>>
    /\ vendor_list = <<Acme>>
    /\ \E info \in ContactInfos : vendor_data = (Acme :> info)
    /\ pc = "contact"
    /\ pdf_text = Str(<<"x">>)
    /\ api_response = Dict("vendor" :> Str(Acme))
    /\ vendor_name = Str(Acme)
    /\ \E o \in Outcomes : po_validation = Dict([po_valid |-> o, reason |-> Lit("po")])
    /\ \E o \in Outcomes : date_validation = Dict([date_valid |-> o, reason |-> Lit("date")])
    /\ \E o \in Outcomes, v \in {EmptyFn, [is_variable |-> True]} :
          rate_validation = Dict(v @@ [rate_valid |-> o, reason |-> Lit("rate")])
    /\ contact_person = Unset
    /\ result = Unset
    /\ calls = <<"vendor">>
    /\ replies = <<"parsed">>
    /\ other = NoRun
    /\ uploads = EmptyFn
    /\ request = NoRequest

NextRoute == DetermineContact

SpecRoute == InitRoute /\ [][NextRoute]_vars

-----------------------------------------------------------------------------
(* validate_po_number on its own: every PO cell and every document text     *)

MaxTextLen == 3
MaxPOLen == 2

TextChars == {"P", "p", "7", " "}

\* the texts extract_pdf_text can return, other than the empty one
Texts == {cs \in SeqsUpTo(TextChars, MaxTextLen) : cs # <<>> /\ CleanText(cs) = cs}

\* a 'Current PO' cell; "missing" stands for a sheet without the column
POCells ==
    {NaN, PyInt(0), PyInt(7), PyFloat(7)} \cup {Str(cs) : cs \in SeqsUpTo(TextChars, MaxPOLen)}

POSheets ==
    {<<AgreementRow(Str(Acme), po, NaN, NaN, NaN, NaN, NaN)>> : po \in POCells}
    \cup {<<[c \in {"Vendor"} |-> Str(Acme)]>>}

InitPO ==
    /\ amplify_api_url = TRUE
    /\ readable = TRUE
    /\ sheet \in POSheets
    /\ rates = <<>>
    /\ vendor_list = LoadVendorList(sheet)
    /\ vendor_data = LoadRegistry(sheet, rates)
    /\ pc = "po"
    /\ pdf_text \in {Str(cs) : cs \in Texts}
    /\ api_response = Dict("vendor" :> Str(Acme))
    /\ vendor_name = Str(Acme)
    /\ po_validation = Unset
    /\ date_validation = Unset
    /\ rate_validation = Unset
    /\ contact_person = Unset
    /\ result = Unset
    /\ calls = <<"vendor">>
    /\ replies = <<"parsed">>
    /\ other = NoRun
    /\ uploads = EmptyFn
    /\ request = NoRequest

NextPO == ValidatePO

SpecPO == InitPO /\ [][NextPO]_vars

-----------------------------------------------------------------------------
(* Two uploads served by the one matcher app.py builds at startup: each      *)
(* request thread runs process_pdf, and the threads interleave at any step   *)

\* the state of one process_pdf run
Run ==
    [pc |-> pc, pdf_text |-> pdf_text, api_response |-> api_response,
     vendor_name |-> vendor_name, po_validation |-> po_validation,
     date_validation |-> date_validation, rate_validation |-> rate_validation,
     contact_person |-> contact_person, result |-> result, calls |-> calls,
     replies |-> replies, request |-> request]

\* a run that has not taken its first step
FreshRun ==
    [pc |-> "extract", pdf_text |-> Unset, api_response |-> Unset, vendor_name |-> Unset,
     po_validation |-> Unset, date_validation |-> Unset, rate_validation |-> Unset,
     contact_person |-> Unset, result |-> Unset, calls |-> <<>>, replies |-> <<>>,
     request |-> NoRequest]

\* the processor passes from one request's thread to the other's
Switch ==
    /\ other # NoRun
    /\ other' = Run
    /\ pc' = other.pc
    /\ pdf_text' = other.pdf_text
    /\ api_response' = other.api_response
    /\ vendor_name' = other.vendor_name
    /\ po_validation' = other.po_validation
    /\ date_validation' = other.date_validation
    /\ rate_validation' = other.rate_validation
    /\ contact_person' = other.contact_person
    /\ result' = other.result
    /\ calls' = other.calls
    /\ replies' = other.replies
    /\ request' = other.request
    /\ UNCHANGED <<Registry, uploads>>

\* the sheets of the shared matcher: a PO on file or none, no contract interval,
\* and a rate that is absent or variable (the two checkers that would call the
\* service read the record and return without a call)
SharedSheets ==
    {<<AgreementRow(Str(Acme), po, NaN, NaN, NaN, NaN, NaN)>> : po \in {NaN, Str(P7)}}

SharedRates == {<<>>, <<<<Str(Acme), Str(variable), NaN>>>>}

InitShared ==
    /\ amplify_api_url \in BOOLEAN
    /\ readable = TRUE
    /\ sheet \in SharedSheets
    /\ rates \in SharedRates
    /\ vendor_list = LoadVendorList(sheet)
    /\ vendor_data = LoadRegistry(sheet, rates)
    /\ InitRun
    /\ other = FreshRun
    /\ uploads = EmptyFn
    /\ request = NoRequest

NextShared ==
    \/ ExtractText
    \/ ResolveVendor
    \/ ValidatePO
    \/ ValidateDate
    \/ ValidateRate
    \/ DetermineContact
    \/ Compile
    \/ Switch

SpecShared == InitShared /\ [][NextShared]_vars

-----------------------------------------------------------------------------
(* __init__: the registry is empty, then _load_vendor_data and               *)
(* _load_rate_data fill it from the workbook                                 *)

\* _load_vendor_data: the 'Vendor' column of the sheet, or the fallback when the
\* column is missing or the workbook cannot be read (the fallback then fails too)
LoadVendorData ==
    /\ pc = "load_vendors"
    /\ vendor_list' = IF ~readable THEN <<>>
                      ELSE IF HasColumn(sheet, "Vendor") THEN LoadVendorList(sheet)
                      ELSE LoadVendorListFallback(sheet)
    /\ vendor_data' = IF readable /\ HasColumn(sheet, "Vendor")
                      THEN LoadVendorRows(sheet, vendor_data)
                      ELSE vendor_data
    /\ pc' = "load_rates"
    /\ UNCHANGED <<amplify_api_url, readable, sheet, rates, Locals, result, calls,
                   replies, other, uploads, request>>

\* _load_rate_data; the matcher is then ready for process_pdf
LoadRateData ==
    /\ pc = "load_rates"
    /\ vendor_data' = IF readable THEN LoadRateRows(rates, vendor_data) ELSE vendor_data
    /\ pc' = "extract"
    /\ UNCHANGED <<amplify_api_url, readable, sheet, rates, vendor_list, Locals, result,
                   calls, replies, other, uploads, request>>

\* the state __init__ sets up before it loads
InitNew ==
    /\ vendor_list = <<>>
    /\ vendor_data = EmptyFn
    /\ pc = "load_vendors"
    /\ pdf_text = Unset
    /\ api_response = Unset
    /\ vendor_name = Unset
    /\ po_validation = Unset
    /\ date_validation = Unset
    /\ rate_validation = Unset
    /\ contact_person = Unset
    /\ result = Unset
    /\ calls = <<>>
    /\ replies = <<>>
    /\ other = NoRun
    /\ uploads = EmptyFn
    /\ request = NoRequest

\* the cells of a vendor column: a name, the name after a blank, a blank, nothing
VendorCells == {Str(Acme), Str(<<" ">> \o Acme), Str(<<" ">>), NaN}

\* a sheet with a 'Vendor' column, a 'Name' column, or a 'Name' and a 'Supplier'
\* column (the name is then in the second)
SheetRow(kind, cell) ==
    CASE kind = "vendor" -> AgreementRow(cell, Str(P7), NaN, NaN, NaN, NaN, NaN)
      [] kind = "name" -> ("Name" :> cell)
      [] kind = "supplier" -> ("Name" :> Str(P7)) @@ ("Supplier" :> cell)

\* the sheets of one or two rows, and the sheet that holds its header only
LoadSheets ==
    {<<>>}
    \cup UNION {{<<SheetRow(kind, a)>> : a \in VendorCells}
                \cup {<<SheetRow(kind, a), SheetRow(kind, b)>> : a \in VendorCells,
                                                                b \in VendorCells} :
                kind \in {"vendor", "name", "supplier"}}

\* the rows of the 'Vendors Rates' sheet: a block begins with a row that names
\* the vendor; a row with an empty first cell continues the block
RateRows ==
    {<<name, cycle, amount>> : name \in {Str(Acme), NaN},
                               cycle \in {NaN, Str(monthly)},
                               amount \in {NaN, PyInt(RateAmount)}}

LoadRates == {<<>>} \cup {<<a>> : a \in RateRows} \cup {<<a, b>> : a \in RateRows, b \in RateRows}

InitLoad ==
    /\ amplify_api_url = TRUE
    /\ readable \in BOOLEAN
    /\ sheet \in (IF readable THEN LoadSheets ELSE {<<>>})
    /\ rates \in (IF readable THEN LoadRates ELSE {<<>>})
    /\ InitNew

NextLoad ==
    \/ LoadVendorData
    \/ LoadRateData

SpecLoad == InitLoad /\ [][NextLoad]_vars

-----------------------------------------------------------------------------
(* The constructor followed by one process_pdf run                           *)

\* workbooks that give an empty vendor list (one that cannot be read, one whose
\* sheet holds its header only, one whose vendor cells are empty or blank) and,
\* next to them, workbooks that name a vendor
BootSheets ==
    {<<>>}
    \cup {<<SheetRow(kind, a)>> : kind \in {"vendor", "name", "supplier"},
                                  a \in {NaN, Str(<<" ">>), Str(Acme)}}

BootRates == {<<>>, <<<<Str(Acme), Str(variable), NaN>>>>}

InitBoot ==
    /\ amplify_api_url = TRUE
    /\ readable \in BOOLEAN
    /\ sheet \in (IF readable THEN BootSheets ELSE {<<>>})
    /\ rates \in (IF readable THEN BootRates ELSE {<<>>})
    /\ InitNew

NextBoot ==
    \/ LoadVendorData
    \/ LoadRateData
    \/ ExtractText
    \/ ResolveVendor
    \/ ValidatePO
    \/ ValidateDate
    \/ ValidateRate
    \/ DetermineContact
    \/ Compile

SpecBoot == InitBoot /\ [][NextBoot]_vars

-----------------------------------------------------------------------------
(* upload_file: the request's file is saved under UPLOAD_FOLDER, read by     *)
(* process_pdf and removed                                                   *)

UPLOAD_FOLDER == <<"u", "p", "l", "o", "a", "d", "s">>

\* the characters secure_filename keeps
SafeChars == {"a", "b", "d", "f", "p", ".", "_", "-"}

RECURSIVE StripDots(_)
\* str(...).strip("._")
StripDots(cs) ==
    IF cs # <<>> /\ Head(cs) \in {".", "_"} THEN StripDots(Tail(cs))
    ELSE IF cs # <<>> /\ cs[Len(cs)] \in {".", "_"} THEN StripDots(SubSeq(cs, 1, Len(cs) - 1))
    ELSE cs

\* werkzeug's secure_filename: path separators become blanks, the words are
\* joined with '_', the unsafe characters dropped, dots and underscores stripped
secure_filename(name) ==
    LET spaced == [i \in 1..Len(name) |-> IF name[i] = "/" THEN " " ELSE name[i]]
        joined == Join(Words(spaced), <<"_">>)
        IsSafe(c) == c \in SafeChars
    IN StripDots(SelectSeq(joined, IsSafe))

\* os.path.join(app.config['UPLOAD_FOLDER'], filename)
PathJoin(folder, filename) == folder \o <<"/">> \o filename

\* a request that passed the checks of upload_file and is about to save its file
Upload(name, doc) == [at |-> "save", filename |-> name, file |-> doc, filepath |-> <<>>]

\* file.save(filepath): the file at the path is created or overwritten
SaveUpload ==
    /\ request.at = "save"
    /\ LET filepath == PathJoin(UPLOAD_FOLDER, secure_filename(request.filename))
       IN /\ uploads' = [p \in DOMAIN uploads \cup {filepath} |->
                            IF p = filepath THEN request.file ELSE uploads[p]]
          /\ request' = [request EXCEPT !.at = "process", !.filepath = filepath]
    /\ UNCHANGED <<Registry, pc, Locals, result, calls, replies, other>>

-----------------------------------------------------------------------------
(* An upload up to the end of extract_pdf_text: every pair of texts the two  *)
(* libraries can recover from a one-page file                                *)

MaxRawLen == 3

APdf == <<"a", ".", "p", "d", "f">>

\* the text a library builds from the page: nothing when the page gave no
\* text, the page's text and a newline otherwise
PageTexts == {<<>>} \cup {t \o <<"\n">> : t \in SeqsUpTo({"x", " "}, MaxRawLen) \ {<<>>}}

PageDocuments == {Document(pypdf, plumber) : pypdf \in PageTexts, plumber \in PageTexts}

InitExtract ==
    /\ amplify_api_url = TRUE
    /\ readable = TRUE
    /\ sheet = <<AgreementRow(Str(Acme), NaN, NaN, NaN, NaN, NaN, NaN)>>
    /\ rates = <<>>
    /\ vendor_list = LoadVendorList(sheet)
    /\ vendor_data = LoadRegistry(sheet, rates)
    /\ InitRun
    /\ other = NoRun
    /\ uploads = EmptyFn
    /\ \E doc \in PageDocuments : request = Upload(APdf, doc)

NextExtract ==
    \/ SaveUpload
    \/ ExtractText

SpecExtract == InitExtract /\ [][NextExtract]_vars

-----------------------------------------------------------------------------
(* Two /upload requests served at the same time: each saves its file,        *)
(* runs process_pdf on the path and removes the file; the threads            *)
(* interleave between any two of these steps                                 *)

\* os.remove(filepath) after process_pdf returned; when process_pdf raised, or
\* when os.remove finds no file and raises, the except branch removes the file
\* if it exists and the request ends with the flashed error
RemoveUpload ==
    /\ request.at = "process"
    /\ pc \in {"done", "raised"}
    /\ uploads' = [p \in DOMAIN uploads \ {request.filepath} |-> uploads[p]]
    /\ request' = [request EXCEPT !.at = IF pc = "done" /\ request.filepath \in DOMAIN uploads
                                         THEN "rendered" ELSE "failed"]
    /\ UNCHANGED <<Registry, pc, Locals, result, calls, replies, other>>

BPdf == <<"b", ".", "p", "d", "f">>

\* the file names the second client sends: the first client's name with a
\* leading separator, and another name
SecondNames == {<<"/">> \o APdf, BPdf}

\* the two files: PyPDF2 recovers 'p7' from the first and 'x ' from the second
FirstFile == Document(<<"p", "7", "\n">>, <<>>)

SecondFile == Document(<<"x", " ", "\n">>, <<>>)

InitUpload ==
    /\ amplify_api_url = TRUE
    /\ readable = TRUE
    /\ sheet = <<AgreementRow(Str(Acme), Str(P7), NaN, NaN, NaN, NaN, NaN)>>
    /\ rates = <<>>
    /\ vendor_list = LoadVendorList(sheet)
    /\ vendor_data = LoadRegistry(sheet, rates)
    /\ InitRun
    /\ uploads = EmptyFn
    /\ request = Upload(APdf, FirstFile)
    /\ \E name \in SecondNames : other = [FreshRun EXCEPT !.request = Upload(name, SecondFile)]

NextUpload ==
    \/ SaveUpload
    \/ ExtractText
    \/ ResolveVendor
    \/ ValidatePO
    \/ ValidateDate
    \/ ValidateRate
    \/ DetermineContact
    \/ Compile
    \/ RemoveUpload
    \/ Switch

SpecUpload == InitUpload /\ [][NextUpload]_vars

-----------------------------------------------------------------------------
(* Claims *)

Director == Lit("Director/Manager")
Admin == Lit("Admin/Main Contact")

Routed == pc = "compile" /\ contact_person # Unset

IsVariable == Truthy(GetOr(rate_validation, "is_variable", False))

AnyFailed ==
    \/ Get(po_validation, "po_valid") = False
    \/ Get(date_validation, "date_valid") = False
    \/ Get(rate_validation, "rate_valid") = False

\* C1: _determine_contact_person returns the director role only if the PO, date
\* and rate outcomes are all exactly valid (True) and the rate is not variable.
C1_DirectorOnlyIfAllValid ==
    (Routed /\ Get(contact_person, "role") = Director)
        => /\ Get(po_validation, "po_valid") = True
           /\ Get(date_validation, "date_valid") = True
           /\ Get(rate_validation, "rate_valid") = True
           /\ ~IsVariable

\* the record of the resolved vendor
TheRecord == vendor_data[vendor_name.s]

HasAdminOrMain ==
    \/ Usable(PyOr(InfoGet(TheRecord, "Main Contact"), InfoGet(TheRecord, "main_contact")))
    \/ Usable(PyOr(InfoGet(TheRecord, "Admin"), InfoGet(TheRecord, "admin")))

HasDirector ==
    Usable(PyOr(InfoGet(TheRecord, "director"), InfoGet(TheRecord, "Asst Director / Director")))

\* C3: if at least one outcome is invalid or the rate is variable, and the record's
\* main contact or admin (each read from its column, or else from its lower-case
\* key) is usable, the role is admin, never director.
C3_FailureOrVariableRoutesToAdmin ==
    (Routed /\ (AnyFailed \/ IsVariable) /\ HasAdminOrMain)
        => Get(contact_person, "role") = Admin

\* C3 witness: PO, date and rate valid, rate variable, a director on file: admin.
C3_Witness ==
    /\ Routed
    /\ Get(po_validation, "po_valid") = True
    /\ Get(date_validation, "date_valid") = True
    /\ Get(rate_validation, "rate_valid") = True
    /\ IsVariable
    /\ HasDirector
    /\ Get(contact_person, "role") = Admin

\* the sheet's row of the vendor (the sheets of the model hold one row)
TheRow == sheet[1]

Resolved == vendor_name # Unset /\ InRegistry(vendor_data, vendor_name)

\* C2: with a registry loaded from a sheet that names a director and an admin for
\* the vendor, a run in which the vendor resolves, PO, date and rate are valid and
\* the rate is fixed ends with the director role naming the sheet's director.
C2_SheetDirectorReachesRouting ==
    (/\ pc = "done"
     /\ Resolved
     /\ Usable(RowGet(TheRow, "Asst Director / Director"))
     /\ Usable(RowGet(TheRow, "Admin"))
     /\ Get(result, "po_valid") = True
     /\ Get(result, "date_valid") = True
     /\ Get(result, "rate_valid") = True
     /\ ~Truthy(Get(result, "is_variable_rate")))
        => /\ Get(result, "contact_role") = Director
           /\ Get(result, "contact_person") = RowGet(TheRow, "Asst Director / Director")

\* the rate check ran for a vendor with a fixed rate amount on file
FixedRateChecked ==
    /\ rate_validation # Unset
    /\ Resolved
    /\ Truthy(InfoGet(TheRecord, "rate_amount"))
    /\ InfoGet(TheRecord, "rate_type") \notin {Str(variable), Str(as_needed)}

WithinTolerance(a, expected) == 95 * expected <= 100 * a /\ 100 * a <= 105 * expected

AmountsFound == GetOr(rate_validation, "amounts_found", List(<<>>)).l

\* C4: for a fixed rate amount A the rate outcome is valid iff some extracted
\* amount a has 0.95*A <= a <= 1.05*A, whatever the service answers.
C4_RateValidIffAmountWithinTolerance ==
    FixedRateChecked
        => (Get(rate_validation, "rate_valid") = True
              <=> \E i \in 1..Len(AmountsFound) :
                     WithinTolerance(AmountsFound[i].n, InfoGet(TheRecord, "rate_amount").n))

\* the date check ran for a vendor with a contract interval on file
DateRangeChecked ==
    /\ date_validation # Unset
    /\ Resolved
    /\ InfoGet(TheRecord, "contract_start").t = "date"
    /\ InfoGet(TheRecord, "contract_end").t = "date"
    /\ date_validation.t = "dict"

InInterval(date) ==
    /\ InfoGet(TheRecord, "contract_start").day <= date.day
    /\ date.day <= InfoGet(TheRecord, "contract_end").day

DatesFound == GetOr(date_validation, "dates_found", List(<<>>)).l

ValidDates == GetOr(date_validation, "valid_dates", List(<<>>)).l

\* C5: for a contract interval [start, end] the date outcome is valid iff some
\* date of the surfaced list of extracted dates lies in the interval, and a valid
\* outcome never comes with an empty valid_dates list, whatever the service answers.
C5_DateValidIffDateInInterval ==
    DateRangeChecked
        => /\ Get(date_validation, "date_valid") = True
                <=> \E i \in 1..Len(DatesFound) : InInterval(DatesFound[i])
           /\ Get(date_validation, "date_valid") = True => ValidDates # <<>>

POChecked == po_validation # Unset /\ Resolved

POCell == InfoGet(TheRecord, "current_po")

\* the PO is on file: the cell is neither missing, nor empty, nor NaN, nor zero
POOnFile == POCell \notin {None, NaN, Str(<<>>), PyInt(0)}

\* p occurs in text at offset i, letter case aside
OccursAt(text, p, i) ==
    /\ i + Len(p) <= Len(text)
    /\ \A k \in 1..Len(p) : LowerChar(text[i + k]) = LowerChar(p[k])

\* C6: with a PO on file, the outcome is valid iff the expected PO, converted to
\* text and trimmed, occurs in the document text, letter case aside, and invalid
\* otherwise; a text embedding the exact PO string validates.
C6_POValidIffSubstring ==
    (POChecked /\ POOnFile)
        => LET p == Strip(PyStr(POCell))
               occurs == \E i \in 0..Len(pdf_text.s) : OccursAt(pdf_text.s, p, i)
               embeds == \E i \in 0..Len(pdf_text.s) :
                            /\ i + Len(p) <= Len(pdf_text.s)
                            /\ SubSeq(pdf_text.s, i + 1, i + Len(p)) = p
           IN /\ Get(po_validation, "po_valid") = (IF occurs THEN True ELSE False)
              /\ embeds => Get(po_validation, "po_valid") = True

\* C6 witness: the PO 'P7' is found in the text '7p7'.
C6_Witness ==
    /\ POChecked
    /\ POCell = Str(<<"P", "7">>)
    /\ pdf_text = Str(<<"7", "p", "7">>)
    /\ Get(po_validation, "po_valid") = True

\* C7: with no PO on file (missing, empty or NaN) the outcome is inapplicable.
C7_NoPOIsInapplicable ==
    (POChecked /\ POCell \in {None, NaN, Str(<<>>)})
        => Get(po_validation, "po_valid") = None

\* C7 witness: a NaN cell, a text, and the inapplicable outcome.
C7_Witness ==
    /\ POChecked
    /\ POCell = NaN
    /\ Get(po_validation, "po_valid") = None

\* C8: a registry rate type of 'variable' or 'as needed' gives valid with
\* is_variable true, without a call of the service, with or without an amount.
C8_VariableRateAlwaysValid ==
    (/\ rate_validation # Unset
     /\ Resolved
     /\ InfoGet(TheRecord, "rate_type") \in {Str(variable), Str(as_needed)})
        => /\ Get(rate_validation, "rate_valid") = True
           /\ Get(rate_validation, "is_variable") = True
           /\ \A i \in 1..Len(calls) : calls[i] # "rate"

\* C8 witness: 'as needed' with an amount on file passes without a call.
C8_Witness ==
    /\ rate_validation # Unset
    /\ Resolved
    /\ InfoGet(TheRecord, "rate_type") = Str(as_needed)
    /\ InfoGet(TheRecord, "rate_amount") = PyInt(RateAmount)
    /\ Get(rate_validation, "rate_valid") = True

\* C9: an empty extracted text ends the run with the extraction error; no
\* resolver call, no checker, no routing and no call of the service happens.
C9_EmptyTextShortCircuits ==
    pdf_text = Str(<<>>)
        => /\ pc = "done"
           /\ result = Dict([error |-> Lit("Could not extract text from PDF")])
           /\ calls = <<>>
           /\ api_response = Unset
           /\ vendor_name = Unset
           /\ po_validation = Unset
           /\ date_validation = Unset
           /\ rate_validation = Unset
           /\ contact_person = Unset

\* C9 witness: a run that ended on an empty text.
C9_Witness == pdf_text = Str(<<>>) /\ pc = "done" /\ result # Unset

\* the resolver answered, and its answer names no vendor
NoMatchReported ==
    /\ api_response # Unset
    /\ api_response.t = "dict"
    /\ ~Truthy(Get(api_response, "vendor"))

\* C10: when the resolver reports no match the run ends with vendor null, no
\* checker and no routing has run, no outcome is set for PO, date or rate, and
\* the result is not the configuration-error result.
C10_NoMatchIsTerminalWithoutChecks ==
    NoMatchReported
        => /\ pc = "done"
           /\ result.t = "dict"
           /\ "vendor" \in DOMAIN result.d
           /\ Get(result, "vendor") = None
           /\ Get(result, "po_valid") = None
           /\ Get(result, "date_valid") = None
           /\ Get(result, "rate_valid") = None
           /\ "error" \notin DOMAIN result.d
           /\ result # Dict([error |-> Lit("API not configured")])
           /\ po_validation = Unset
           /\ date_validation = Unset
           /\ rate_validation = Unset
           /\ contact_person = Unset
           /\ calls = <<"vendor">>

\* C10 witness: the service answered {"vendor": null} and the run ended.
C10_Witness ==
    /\ api_response = Dict("vendor" :> None)
    /\ pc = "done"
    /\ Get(result, "vendor") = None

\* the resolver call was made and failed: an exception (a timeout is one) or a
\* status other than 200
ResolverFailed == calls # <<>> /\ calls[1] = "vendor" /\ api_response = None

\* the result process_pdf returns when the service answered that no vendor matches
NoMatchResult ==
    Dict([vendor |-> None, po_valid |-> None, date_valid |-> None,
          method |-> Lit("amplify_api")])

\* C11: a transport failure, timeout or non-200 response of the resolver call is
\* reported by a result that differs from the result returned when the service
\* answered that no vendor matches.
C11_ResolverFailureDistinguishable ==
    (pc = "done" /\ ResolverFailed) => result # NoMatchResult

\* C12: process_pdf never raises: whatever the service does at any call, the run
\* ends by returning structured data, an error object or a result.
C12_ProcessPdfNeverRaises == pc # "raised" /\ result # Raised

\* how the run's call of the given kind ended, "none" when no such call was made
ReplyTo(kind) ==
    IF \E i \in 1..Len(calls) : calls[i] = kind
    THEN replies[CHOOSE i \in 1..Len(calls) : calls[i] = kind]
    ELSE "none"

\* the checker's call failed, or its body could not be turned into an answer
\* holding the field: v is what the checker returned
CouldNotEvaluate(kind, v, field) ==
    \/ ReplyTo(kind) \in {"exception", "non200", "empty", "text"}
    \/ ReplyTo(kind) = "parsed" /\ (v.t # "dict" \/ field \notin DOMAIN v.d)

\* the reasons by which the two helpers report that they could not evaluate
EvaluationFailure ==
    {Lit("API error"), Lit("API call failed"), Lit("Could not parse LLM response")}

\* C13: if the call of the date checker or of the rate checker fails, or returns
\* content that is not an answer holding date_valid / rate_valid, the checker's
\* outcome in the result is invalid with a reason telling that the evaluation
\* could not be performed; it is neither valid nor inapplicable.
C13_FailedEvaluationIsInvalid ==
    pc \in {"done", "raised"}
        => /\ CouldNotEvaluate("date", date_validation, "date_valid")
                => /\ result.t = "dict"
                   /\ Get(result, "date_valid") = False
                   /\ Get(result, "date_reason") \in EvaluationFailure
           /\ CouldNotEvaluate("rate", rate_validation, "rate_valid")
                => /\ result.t = "dict"
                   /\ Get(result, "rate_valid") = False
                   /\ Get(result, "rate_reason") \in EvaluationFailure

\* the steps of process_pdf in the order of the code
Order == <<"extract", "resolve", "po", "date", "rate", "contact", "compile", "done">>

\* the place of a position in that order; raising ends a run as returning does
Place(p) == IF p = "raised" THEN Len(Order) ELSE CHOOSE i \in 1..Len(Order) : Order[i] = p

\* the three checkers have returned
CheckersDone == po_validation # Unset /\ date_validation # Unset /\ rate_validation # Unset

Candidates == {vendor_list[i] : i \in 1..Len(vendor_list)}

IsCandidate(v) == v.t = "str" /\ v.s \in Candidates

\* C15: the vendor of a result is null or a name of the candidate list, and no
\* checker runs for a name that is not in the candidate list.
C15_ResultVendorIsCandidate ==
    /\ (pc = "done" /\ result.t = "dict" /\ "vendor" \in DOMAIN result.d)
          => (Get(result, "vendor") = None \/ IsCandidate(Get(result, "vendor")))
    /\ (po_validation # Unset \/ date_validation # Unset \/ rate_validation # Unset)
          => IsCandidate(vendor_name)

\* C16: whatever the runs of the two requests have done, and however their steps
\* interleave, vendor_list and vendor_data are what the constructor loaded from
\* the sheets: every name, every record and every field.
C16_RegistryStaysAsLoaded ==
    /\ vendor_list = LoadVendorList(sheet)
    /\ vendor_data = LoadRegistry(sheet, rates)

\* C16 witness: one request is about to be routed, the other is between its PO
\* check and its date check, and both have read the vendor's record.
C16_Witness ==
    /\ pc = "contact"
    /\ other.pc = "date"
    /\ InRegistry(vendor_data, vendor_name)
    /\ InRegistry(vendor_data, other.vendor_name)
    /\ Get(po_validation, "po_valid") = False
    /\ Get(other.po_validation, "po_valid") = True
    /\ vendor_data = LoadRegistry(sheet, rates)

\* the constructor has returned
Loaded == pc \notin {"load_vendors", "load_rates"}

\* row i of the rates sheet carries a name in its first cell
CarriesName(i) == ~IsNa(rates[i][1]) /\ Strip(PyStr(rates[i][1])) # <<>>

\* the current vendor at row i: the name of the nearest row, from i upwards,
\* that carries one
HasCurrent(i) == \E j \in 1..i : CarriesName(j)

CurrentVendor(i) ==
    LET j == CHOOSE j \in 1..i : CarriesName(j) /\ \A k \in (j + 1)..i : ~CarriesName(k)
    IN Strip(PyStr(rates[j][1]))

\* the rows whose current vendor is v
Block(v) == {k \in 1..Len(rates) : HasCurrent(k) /\ CurrentVendor(k) = v}

\* C17: an amount or a billing-cycle keyword on a row of the rates sheet whose
\* first cell is empty is attached to the current vendor: after the load, the
\* record of the vendor named by the nearest earlier row carrying a name holds a
\* rate amount (a rate type) found on a row of that vendor's block.
C17_ContinuationRowsAttach ==
    (Loaded /\ readable)
        => \A i \in 1..Len(rates) :
              (~CarriesName(i) /\ HasCurrent(i))
                  => LET v == CurrentVendor(i)
                     IN /\ (~IsNa(rates[i][3]) /\ IsNumber(rates[i][3]))
                              => /\ v \in DOMAIN vendor_data
                                 /\ InfoGet(vendor_data[v], "rate_amount")
                                       \in {rates[k][3] : k \in Block(v)} \ {NaN}
                        /\ FindCycle(rates[i], 2) # None
                              => /\ v \in DOMAIN vendor_data
                                 /\ InfoGet(vendor_data[v], "rate_type")
                                       \in {FindCycle(rates[k], 2) : k \in Block(v)} \ {None}

\* C18: after a load no trimmed name occurs twice in the loader's output: the
\* names of vendor_list are trimmed and pairwise distinct, and the keys of
\* vendor_data are trimmed names, so that no two records share a trimmed name.
C18_NoTrimmedNameTwice ==
    Loaded
        => /\ \A i, j \in 1..Len(vendor_list) : vendor_list[i] = vendor_list[j] => i = j
           /\ \A i \in 1..Len(vendor_list) : Strip(vendor_list[i]) = vendor_list[i]
           /\ \A k \in DOMAIN vendor_data : Strip(k) = k

ConfigurationError == Dict([error |-> Lit("API not configured")])

ExtractionError == Dict([error |-> Lit("Could not extract text from PDF")])

\* C19: with the URL or the key missing, every run ends with the configuration
\* error, also for a document without extractable text, and no call is made.
C19_ConfigurationErrorFirst ==
    (~amplify_api_url /\ pc = "done")
        => result = ConfigurationError /\ calls = <<>>

\* C19, amended: with the URL or the key missing, the text is extracted first: a
\* document without extractable text ends with the extraction error, every other
\* document with the configuration error; no call is made and no vendor is
\* resolved, no checker and no routing runs.
C19_ConfigurationErrorAfterExtraction ==
    (~amplify_api_url /\ pdf_text # Unset)
        => /\ calls = <<>>
           /\ api_response = Unset
           /\ vendor_name = Unset
           /\ ~CheckersDone
           /\ contact_person = Unset
           /\ pc \in {"resolve", "done"}
           /\ pc = "done"
                => result = (IF pdf_text = Str(<<>>) THEN ExtractionError
                             ELSE ConfigurationError)

\* C19 witness: a document with text on a matcher without URL or key.
C19_Witness ==
    /\ ~amplify_api_url
    /\ pdf_text = Str(<<"x">>)
    /\ pc = "done"
    /\ result = ConfigurationError
    /\ calls = <<>>

\* C20: when the load left the candidate list empty, every run reports no match:
\* whatever the document and whatever the service answers, no vendor is taken,
\* no checker and no routing runs, and a result that names a vendor names null.
C20_EmptyListNeverResolves ==
    (Loaded /\ vendor_list = <<>>)
        => /\ vendor_name = Unset
           /\ po_validation = Unset
           /\ date_validation = Unset
           /\ rate_validation = Unset
           /\ contact_person = Unset
           /\ pc # "raised"
           /\ (pc = "done" /\ "vendor" \in DOMAIN result.d) => Get(result, "vendor") = None

Unknown == Lit("Unknown")

\* the director is the contact selected: no outcome is invalid, the rate is not
\* variable and the record holds a usable director
DirectorSelected == ~AnyFailed /\ ~IsVariable /\ HasDirector

\* C21: when the record holds no usable main contact or admin and the director is
\* not the contact selected, the role is unknown with the reason 'No contact
\* information available', whatever the three outcomes are.
C21_NoContactIsUnknown ==
    (Routed /\ ~HasAdminOrMain /\ ~DirectorSelected)
        => /\ Get(contact_person, "role") = Unknown
           /\ Get(contact_person, "name") = Unknown
           /\ Get(contact_person, "reason") = Lit("No contact information available")

\* C21 witness: the PO check failed, a director is on file, no admin and no main
\* contact: unknown.
C21_Witness ==
    /\ Routed
    /\ Get(po_validation, "po_valid") = False
    /\ HasDirector
    /\ ~HasAdminOrMain
    /\ Get(contact_person, "role") = Unknown


\* the text has a character that is not whitespace
HasText(text) == \E i \in 1..Len(text) : text[i] \notin Whitespace

\* the uploaded file has been read by extract_pdf_text
Extracted == request.at = "process" /\ pdf_text # Unset

\* C22: the text returned for a file is the normalized form of the longer of the
\* two recovered texts, and it is non-empty whenever one of the two strategies
\* recovered a text with a non-whitespace character
C22_RecoveredTextIsReturned ==
    Extracted =>
        LET doc == uploads[request.filepath]
            recovered == {doc.pypdf, doc.plumber}
        IN /\ \E t \in recovered :
                 /\ \A u \in recovered : Len(t) >= Len(u)
                 /\ pdf_text = Str(CleanText(t))
           /\ (\E t \in recovered : HasText(t)) => pdf_text # Str(<<>>)


\* the admin and the main contact of the record, each read as the code reads it
TheAdmin == PyOr(InfoGet(TheRecord, "Admin"), InfoGet(TheRecord, "admin"))

TheMainContact == PyOr(InfoGet(TheRecord, "Main Contact"), InfoGet(TheRecord, "main_contact"))

\* C23: when the admin role is returned, the contact named is the record's
\* admin if it is usable, and the main contact only when no admin is usable.
C23_AdminPreferredOverMain ==
    (Routed /\ Get(contact_person, "role") = Admin)
        => Get(contact_person, "name") = IF Usable(TheAdmin) THEN TheAdmin ELSE TheMainContact


\* the reasons the outcomes call for: one for each invalid check, one for a
\* variable rate
ReasonsDue ==
    {r \in {"PO validation failed", "date validation failed", "rate validation failed",
            "variable rate type"} :
        \/ r = "PO validation failed" /\ Get(po_validation, "po_valid") = False
        \/ r = "date validation failed" /\ Get(date_validation, "date_valid") = False
        \/ r = "rate validation failed" /\ Get(rate_validation, "rate_valid") = False
        \/ r = "variable rate type" /\ IsVariable}

\* C24: when the admin role is returned, the reason lists exactly the checks
\* whose outcome is invalid, plus 'variable rate type' exactly when the rate is
\* variable, each once; it is 'Default admin contact' exactly when there is
\* nothing to list.
C24_ReasonListsExactlyTheFailures ==
    (Routed /\ Get(contact_person, "role") = Admin)
        => LET reason == Get(contact_person, "reason")
           IN IF ReasonsDue = {} THEN reason = Lit("Default admin contact")
              ELSE /\ reason.t = "joined"
                   /\ {reason.parts[i] : i \in 1..Len(reason.parts)} = ReasonsDue
                   /\ Len(reason.parts) = Cardinality(ReasonsDue)

\* C24 witness: PO invalid, date inapplicable, rate valid and variable: the
\* reason lists the PO failure and the variable rate, nothing else.
C24_Witness ==
    /\ Routed
    /\ Get(po_validation, "po_valid") = False
    /\ Get(date_validation, "date_valid") = None
    /\ Get(rate_validation, "rate_valid") = True
    /\ IsVariable
    /\ Get(contact_person, "role") = Admin
    /\ Get(contact_person, "reason") = Joined(<<"PO validation failed", "variable rate type">>)


\* the date check ran for a vendor of the registry
DateChecked == date_validation # Unset /\ Resolved

\* the outcome the date check returned
DateOutcome ==
    IF date_validation.t = "dict" THEN GetOr(date_validation, "date_valid", None)
    ELSE date_validation

HasContractStart == InfoGet(TheRecord, "contract_start").t = "date"

HasContractEnd == InfoGet(TheRecord, "contract_end").t = "date"

\* C25: the date outcome is inapplicable exactly when the record has neither a
\* contract start nor a contract end; with at least one of the two on file the
\* outcome is valid or invalid.
C25_DateInapplicableIffNoDates ==
    DateChecked
        => /\ DateOutcome = None <=> (~HasContractStart /\ ~HasContractEnd)
           /\ (HasContractStart \/ HasContractEnd) => DateOutcome \in {True, False}


\* the rate check ran for a vendor of the registry
RateChecked == rate_validation # Unset /\ Resolved

\* the outcome the rate check returned
RateOutcome ==
    IF rate_validation.t = "dict" THEN GetOr(rate_validation, "rate_valid", None)
    ELSE rate_validation

HasRateType == InfoGet(TheRecord, "rate_type").t = "str"

HasRateAmount == InfoGet(TheRecord, "rate_amount").t = "int"

\* C26: the rate outcome is inapplicable exactly when the record has neither a
\* rate type nor a rate amount; with at least one of the two on file the
\* outcome is valid or invalid.
C26_RateInapplicableIffNoRateData ==
    RateChecked
        => /\ RateOutcome = None <=> (~HasRateType /\ ~HasRateAmount)
           /\ (HasRateType \/ HasRateAmount) => RateOutcome \in {True, False}


\* the 200 response of the resolver call yields no object holding a vendor
\* entry: an empty body, a body holding no JSON, or JSON of another shape
NoVendorObject ==
    \/ ReplyTo("vendor") \in {"empty", "text"}
    \/ ReplyTo("vendor") = "parsed"
         /\ (api_response.t # "dict" \/ "vendor" \notin DOMAIN api_response.d)

\* C27: a 200 response of the resolver call that yields no object of the shape
\* {vendor: name-or-null}, neither directly nor from a fenced block, ends the
\* run with the no-match result (vendor null); the run does not raise.
C27_UnparseableAnswerIsNoMatch ==
    NoVendorObject => pc = "done" /\ result = NoMatchResult


\* the registry's rate type of the resolved vendor is 'variable' or 'as needed'
RegistryRateIsVariable ==
    /\ InfoGet(TheRecord, "rate_type").t = "str"
    /\ Lower(InfoGet(TheRecord, "rate_type").s) \in {variable, as_needed}

\* C28: the is_variable flag the rate check hands to the routing, and the
\* is_variable_rate of the result, are true only if the registry's rate type of
\* the vendor is 'variable' or 'as needed'; no answer of the service sets them.
C28_VariableFlagFromRegistryOnly ==
    /\ RateChecked => (IsVariable => RegistryRateIsVariable)
    /\ (pc = "done" /\ Resolved /\ result.t = "dict" /\ "is_variable_rate" \in DOMAIN result.d)
          => (Truthy(Get(result, "is_variable_rate")) => RegistryRateIsVariable)


\* C29: when the PO check returns valid, the expected PO it matched is a
\* non-empty string after trimming; a blank or whitespace-only PO cell does not
\* validate a document.
C29_ValidPOIsNonEmpty ==
    (POChecked /\ Get(po_validation, "po_valid") = True)
        => /\ Strip(Get(po_validation, "expected_po").s) # <<>>
           /\ Strip(PyStr(POCell)) # <<>>


\* a request in flight has its own file at its path until its process_pdf has
\* read it, and the text its process_pdf works on is the text of that file
OwnFileServed(run) ==
    /\ (run.request.at = "process" /\ run.pc = "extract")
          => /\ run.request.filepath \in DOMAIN uploads
             /\ uploads[run.request.filepath] = run.request.file
    /\ (run.request.at \in {"process", "rendered", "failed"} /\ run.pdf_text # Unset)
          => run.pdf_text = Str(extract_pdf_text(run.request.file.pypdf,
                                                  run.request.file.plumber))

\* C30: under any interleaving of two /upload requests, whether or not their
\* sanitized file names are equal, each request's file stays at its path until
\* the request's own process_pdf has read it, and each request validates the
\* text of the file it uploaded: none reads, overwrites or deletes the other's.
C30_EachUploadServedFromItsOwnFile ==
    /\ OwnFileServed(Run)
    /\ other # NoRun => OwnFileServed(other)

====
